---- MODULE Spec2Model ----
(***************************************************************************)
(* A model of nmealog.py, the threaded NMEA serial logger, and of          *)
(* SCPIlogger.py, the synchronous query/response logger.                   *)
(*                                                                         *)
(*   chksum_nmea   the checksum validator, a pure function on text         *)
(*   nmeapoll      the control thread: port set-up, worker start, SIGINT   *)
(*   portthread    the worker: buffer gate, drain cycle, end-of-cycle wait *)
(*   readbuf       one drain cycle: rollover check, nline reads, write     *)
(*   SCPIlogger    its nmeapoll: five queries and one record per iteration *)
(*                                                                         *)
(* Text is a sequence of characters; a character is a short string naming  *)
(* it ("CR" and "LF" are the carriage return and the line feed, "xFF" is a *)
(* byte that is not valid UTF-8).                                          *)
(***************************************************************************)
EXTENDS Integers, Sequences, FiniteSets, TLC

VARIABLES
    sentence,      \* chksum_nmea's argument (validator specification)
    result,        \* chksum_nmea's return value, "none" before the call
    cpc,           \* nmeapoll: position of the control (main) thread
    wpc,           \* portthread/readbuf: position of the worker thread
    stop,          \* the Event `stop`: its flag
    hsOpen,        \* hs.isOpen()
    nclose,        \* number of hs.close() calls made
    rxbuf,         \* the serial receive buffer: the lines waiting in it
    nsent,         \* lines the receiver has emitted so far
    lastday,       \* nmeapoll's lastday, the argument handed to portthread
    logfn,         \* the -l argument: "None" or a stem
    verbose,       \* the -v argument
    wire,          \* the environment: the lines the receiver may emit
    dates,         \* the environment: the dates the wall clock may show
    inBufferByte,  \* portthread's inBufferByte, 0 once the branch on it is taken
    Today,         \* readbuf's local Today
    lastdayL,      \* readbuf's local lastday (rebound on rollover)
    txt,           \* readbuf's local txt
    i,             \* readbuf's loop index
    raw,           \* history: the lines read so far in this drain cycle
    files,         \* the file system: day -> content of {stem}-{day}{ext}
    files0,        \* history: the file system before the run
    expected,      \* history: what the completed cycles should leave in the files
    rolledFrom,    \* history: the latest day a rollover has left behind, or -1
    fault,         \* the exception that ended the worker, "none" if none
    stdout,        \* what readbuf printed: records, in order
    spc,           \* SCPIlogger's nmeapoll: position of the program
    logstem,       \* SCPIlogger: the -o argument, "None" or a stem
    verboseScpi,   \* SCPIlogger: the -v argument
    terminated,    \* SCPIlogger's device: its reply lines end in CR LF
    clock,         \* SCPIlogger's environment: the dates the clock may show
    LastDay,       \* SCPIlogger: LastDay
    TodayScpi,     \* SCPIlogger: Today
    niter,         \* SCPIlogger: iterations of `while True` begun
    q,             \* SCPIlogger: queries of this iteration answered so far
    ops,           \* history: the port operations of this iteration
    cln,           \* SCPIlogger: the fields [now, jam, ...] gathered so far
    filesScpi,     \* SCPIlogger's file system: day -> {stem}-{day}.txt
    stdoutScpi,    \* what SCPIlogger printed in its loop
    faultScpi      \* the exception that ended SCPIlogger, "none" if none

scpiVars == << spc, logstem, verboseScpi, terminated, clock, LastDay,
               TodayScpi, niter, q, ops, cln, filesScpi, stdoutScpi,
               faultScpi >>

vars == << sentence, result, cpc, wpc, stop, hsOpen, nclose, rxbuf, nsent,
           lastday, logfn, verbose, wire, dates, inBufferByte, Today, lastdayL,
           txt, i, raw, files, files0, expected, rolledFrom, fault, stdout,
           scpiVars >>

chkVars == << sentence, result >>

\* what a step of nmealog.py leaves alone: the validator specification's
\* state and SCPIlogger's
offVars == << chkVars, scpiVars >>

sysVars == << cpc, wpc, stop, hsOpen, nclose, rxbuf, nsent, lastday, logfn,
              verbose, wire, dates, inBufferByte, Today, lastdayL, txt, i, raw,
              files, files0, expected, rolledFrom, fault, stdout >>

----------------------------------------------------------------------------
(* Bounds of the model.                                                    *)

\* longest sentence handed to chksum_nmea in the validator specification
MaxLen == 6

----------------------------------------------------------------------------
(* Characters and Python's string primitives.                              *)

\* ord(c) for the characters of the model
Ord(c) ==
    CASE c = "$"   -> 36
      [] c = "*"   -> 42
      [] c = "0"   -> 48
      [] c = "3"   -> 51
      [] c = "G"   -> 71
      [] c = "CR"  -> 13
      [] c = "LF"  -> 10
      [] c = "xFF" -> 255

\* the characters chksum_nmea is checked on
ChkAlphabet == {"$", "*", "0", "3", "G", "CR", "LF"}

\* int(c, 16) of one hexadecimal digit; the model's digits are 0 and 3
IsHexDigit(c) == c \in {"0", "3"}
DigitVal(c) == IF c = "0" THEN 0 ELSE 3

\* what int() strips from both ends, str.isspace()
IsSpace(c) == c \in {"CR", "LF"}

\* a ^ b on non-negative integers
RECURSIVE BitXor(_, _)
BitXor(a, b) ==
    IF a = 0 THEN b
    ELSE IF b = 0 THEN a
    ELSE 2 * BitXor(a \div 2, b \div 2) + (((a % 2) + (b % 2)) % 2)

\* s[a:b], Python's slice of a string, a and b possibly negative
PyIndex(n, k) == IF k < 0 THEN (IF n + k < 0 THEN 0 ELSE n + k)
                 ELSE (IF k > n THEN n ELSE k)
PySlice(s, a, b) ==
    LET lo == PyIndex(Len(s), a)
        hi == PyIndex(Len(s), b)
    IN  IF lo >= hi THEN << >> ELSE SubSeq(s, lo + 1, hi)

\* s.find(c): the 0-based index of the first c in s, -1 if there is none
PyFind(s, c) ==
    IF \E k \in 1..Len(s) : s[k] = c
    THEN (CHOOSE k \in 1..Len(s) : s[k] = c /\ \A j \in 1..(k - 1) : s[j] # c) - 1
    ELSE -1

\* re.sub("(\n|\r\n)", "", s): every LF goes, and a CR goes when an LF follows it
RECURSIVE StripNewlines(_)
StripNewlines(s) ==
    IF s = << >> THEN << >>
    ELSE IF s[1] = "LF" THEN StripNewlines(Tail(s))
    ELSE IF s[1] = "CR" /\ Len(s) >= 2 /\ s[2] = "LF"
         THEN StripNewlines(Tail(Tail(s)))
    ELSE << s[1] >> \o StripNewlines(Tail(s))

\* csum = 0; for c in chksumdata: csum ^= ord(c)
RECURSIVE XorFold(_)
XorFold(s) ==
    IF s = << >> THEN 0
    ELSE BitXor(Ord(s[1]), XorFold(Tail(s)))

\* str.strip(): leading and trailing whitespace removed
RECURSIVE LStrip(_)
LStrip(s) == IF s # << >> /\ IsSpace(s[1]) THEN LStrip(Tail(s)) ELSE s
RECURSIVE RStrip(_)
RStrip(s) ==
    IF s # << >> /\ IsSpace(s[Len(s)]) THEN RStrip(SubSeq(s, 1, Len(s) - 1)) ELSE s

\* int(cksum, 16): surrounding whitespace is stripped and what is left must
\* be hexadecimal digits, else ValueError (ok = FALSE). cksum is a slice of
\* at most two characters; the model's characters hold no sign, no
\* underscore and no "x".
IntHex(cksum) ==
    LET d == RStrip(LStrip(cksum))
    IN  IF Len(d) = 1 /\ IsHexDigit(d[1])
        THEN [ok |-> TRUE, val |-> DigitVal(d[1])]
        ELSE IF Len(d) = 2 /\ IsHexDigit(d[1]) /\ IsHexDigit(d[2])
        THEN [ok |-> TRUE, val |-> 16 * DigitVal(d[1]) + DigitVal(d[2])]
        ELSE [ok |-> FALSE, val |-> 0]

----------------------------------------------------------------------------
(* chksum_nmea                                                             *)

\* True when hex(csum) == hex(int(cksum, 16)); the ValueError of int() is
\* caught and the function returns False
chksum_nmea(s) ==
    LET cksum      == PySlice(s, -4, -2)
        chksumdata == StripNewlines(PySlice(s, PyFind(s, "$") + 1, PyFind(s, "*")))
        csum       == XorFold(chksumdata)
        v          == IntHex(cksum)
    IN  v.ok /\ csum = v.val

----------------------------------------------------------------------------
(* The validator specification: chksum_nmea applied to every text of at    *)
(* most MaxLen characters.                                                 *)

RECURSIVE Texts(_)
Texts(n) ==
    IF n = 0 THEN {<< >>}
    ELSE LET T == Texts(n - 1)
         IN  T \cup {Append(t, c) : t \in {u \in T : Len(u) = n - 1}, c \in ChkAlphabet}

SysIdle ==
    /\ cpc = "idle" /\ wpc = "idle" /\ stop = FALSE /\ hsOpen = FALSE
    /\ nclose = 0 /\ rxbuf = << >> /\ nsent = 0 /\ lastday = 0
    /\ logfn = "None" /\ verbose = FALSE /\ wire = {} /\ dates = {}
    /\ inBufferByte = 0 /\ Today = 0
    /\ lastdayL = 0 /\ txt = << >> /\ i = 0 /\ raw = << >>
    /\ files = << >> /\ files0 = << >> /\ expected = << >>
    /\ fault = "none" /\ stdout = << >> /\ rolledFrom = -1

\* SCPIlogger is not running
ScpiIdle ==
    /\ spc = "idle" /\ logstem = "None" /\ verboseScpi = FALSE
    /\ terminated = FALSE /\ clock = {} /\ LastDay = 0 /\ TodayScpi = 0
    /\ niter = 0 /\ q = 0 /\ ops = << >> /\ cln = << >>
    /\ filesScpi = << >> /\ stdoutScpi = << >> /\ faultScpi = "none"

InitChk ==
    /\ sentence \in Texts(MaxLen)
    /\ result = "none"
    /\ SysIdle
    /\ ScpiIdle

\* result = chksum_nmea(sentence)
Validate ==
    /\ result = "none"
    /\ result' = IF chksum_nmea(sentence) THEN "True" ELSE "False"
    /\ UNCHANGED << sentence, sysVars, scpiVars >>

NextChk == Validate

SpecChk == InitChk /\ [][NextChk]_vars

----------------------------------------------------------------------------
(* The logger: program constants, the receiver's lines, the file system.   *)

\* nmeapoll: nline = 4
nline == 4

\* portthread's parameter bytesWait, the gate's threshold. nmeapoll passes
\* 500; the model's lines are 7 bytes long where a receiver's are some 70,
\* and the threshold is scaled with them: one whole line reaches it
bytesWait == 7

\* lines the receiver emits in one run
MaxRx == 3

\* the wall clock's dates are 0..MaxDay
MaxDay == 1

Days == 0..MaxDay

\* a sentence whose checksum field is the fold of its payload
LineA == << "$", "0", "*", "3", "0", "CR", "LF" >>

\* another one, so that the order of lines shows
LineB == << "$", "3", "*", "3", "3", "CR", "LF" >>

\* a sentence with a corrupted checksum: its second checksum byte is lost.
\* Shorter than bytesWait, it alone leaves the gate waiting
LineBad == << "$", "0", "*", "3", "CR", "LF" >>

\* a line holding a byte that is not valid UTF-8
LineRaw == << "$", "xFF", "*", "3", "0", "CR", "LF" >>

RxLines == {LineA, LineB, LineBad, LineRaw}

\* bytes.decode('utf-8') raises UnicodeDecodeError on an invalid byte
Decodable(line) == \A k \in 1..Len(line) : line[k] # "xFF"

\* hs.inWaiting(): the number of bytes in the receive buffer
RECURSIVE InWaiting(_)
InWaiting(buf) ==
    IF buf = << >> THEN 0 ELSE Len(Head(buf)) + InWaiting(Tail(buf))

\* ''.join(txt)
RECURSIVE Join(_)
Join(t) == IF t = << >> THEN << >> ELSE Head(t) \o Join(Tail(t))

\* what an earlier run left in the log of day 0; the later days have no file
OldLog == LineB

\* a path that does not exist
NoFile == << "ENOENT" >>

\* open(logfn, "a") then write(cgrp): the file is created if absent, never
\* truncated, and cgrp lands at its end
AppendFile(content, cgrp) ==
    IF content = NoFile THEN cgrp ELSE content \o cgrp

\* the gate with the comparison off by one: a buffer holding exactly the
\* threshold waits
BufferGateStrict(count, threshold) ==
    IF count <= threshold THEN "wait" ELSE "proceed"

\* the buffer gate of portthread: `if inBufferByte < bytesWait`
BufferGate(count, threshold) ==
    IF count < threshold THEN "wait" ELSE "proceed"

\* readbuf's rollover check: `if (Today-lastday).days > 0: lastday = Today`
Rollover(td, ld) == IF td - ld > 0 THEN td ELSE ld

\* the process is gone once the main thread has ended and no worker runs
ProcessAlive ==
    ~(cpc \in {"exited", "killed"} /\ wpc \in {"idle", "done", "crashed"})

----------------------------------------------------------------------------
(* nmeapoll: the control thread.                                           *)

cfgVars == << logfn, verbose, files0, wire, dates >>
portVars == << hsOpen, nclose >>
readbufVars == << Today, lastdayL, txt, i >>
outVars == << files, expected, stdout >>
histVars == << raw, rolledFrom >>

\* hs = Serial(sport, ...); if not hs.isOpen(): hs.open()
COpen ==
    /\ cpc = "serial"
    /\ hsOpen' = TRUE
    /\ cpc' = "flushInput"
    /\ UNCHANGED << offVars, cfgVars, readbufVars, outVars, histVars, nclose,
                    wpc, stop, rxbuf, nsent, lastday, inBufferByte, fault >>

\* hs.flushInput()
CFlushInput ==
    /\ cpc = "flushInput"
    /\ rxbuf' = << >>
    /\ cpc' = "flushOutput"
    /\ UNCHANGED << offVars, cfgVars, readbufVars, outVars, histVars, portVars,
                    wpc, stop, nsent, lastday, inBufferByte, fault >>

\* hs.flushOutput(): the program has written nothing, the output is empty
CFlushOutput ==
    /\ cpc = "flushOutput"
    /\ cpc' = "lastday"
    /\ UNCHANGED << offVars, cfgVars, readbufVars, outVars, histVars, portVars,
                    wpc, stop, rxbuf, nsent, lastday, inBufferByte, fault >>

\* lastday = date.today(); stop = Event()
CLastday ==
    /\ cpc = "lastday"
    /\ \E d \in dates : lastday' = d
    /\ stop' = FALSE
    /\ cpc' = "start"
    /\ UNCHANGED << offVars, cfgVars, readbufVars, outVars, histVars, portVars,
                    wpc, rxbuf, nsent, inBufferByte, fault >>

\* thread = Thread(target=portthread, args=(hs,lastday,...)); thread.start()
CStart ==
    /\ cpc = "start"
    /\ wpc' = "while"
    /\ cpc' = "signal"
    /\ UNCHANGED << offVars, cfgVars, readbufVars, outVars, histVars, portVars,
                    stop, rxbuf, nsent, lastday, inBufferByte, fault >>

\* signal(SIGINT, signal_handler)
CSignal ==
    /\ cpc = "signal"
    /\ cpc' = "heartbeat"
    /\ UNCHANGED << offVars, cfgVars, readbufVars, outVars, histVars, portVars,
                    wpc, stop, rxbuf, nsent, lastday, inBufferByte, fault >>

\* while True: print('current time is ...'); sleep(1)
CHeartbeat ==
    /\ cpc = "heartbeat"
    /\ UNCHANGED vars

\* the handler also flushing the port: stop.set(); hs.flushInput(); exit(0)
signal_handlerFlushes ==
    /\ cpc = "heartbeat"
    /\ stop' = TRUE
    /\ rxbuf' = << >>
    /\ cpc' = "exited"
    /\ UNCHANGED << offVars, cfgVars, readbufVars, outVars, histVars, portVars,
                    wpc, nsent, lastday, inBufferByte, fault >>

\* signal_handler, run on SIGINT once installed: stop.set(); print; exit(0)
signal_handler ==
    /\ cpc = "heartbeat"
    /\ stop' = TRUE
    /\ cpc' = "exited"
    /\ UNCHANGED << offVars, cfgVars, readbufVars, outVars, histVars, portVars,
                    wpc, rxbuf, nsent, lastday, inBufferByte, fault >>

\* SIGINT before signal() has installed the handler: Python's default
\* handler raises KeyboardInterrupt in the main thread, which ends it
DefaultSigint ==
    /\ cpc \in {"serial", "flushInput", "flushOutput", "lastday", "start", "signal"}
    /\ cpc' = "killed"
    /\ UNCHANGED << offVars, cfgVars, readbufVars, outVars, histVars, portVars,
                    wpc, stop, rxbuf, nsent, lastday, inBufferByte, fault >>

----------------------------------------------------------------------------
(* portthread: the worker.                                                 *)

\* the loop's test without the flag: `while True:`
WWhileForever ==
    /\ wpc = "while"
    /\ wpc' = "inWaiting"
    /\ UNCHANGED << offVars, cfgVars, readbufVars, outVars, histVars, portVars,
                    cpc, stop, rxbuf, nsent, lastday, inBufferByte, fault >>

\* while(not stop.is_set()):
WWhile ==
    /\ wpc = "while"
    /\ wpc' = IF stop THEN "done" ELSE "inWaiting"
    /\ UNCHANGED << offVars, cfgVars, readbufVars, outVars, histVars, portVars,
                    cpc, stop, rxbuf, nsent, lastday, inBufferByte, fault >>

\* inBufferByte = hs.inWaiting(); if inBufferByte < bytesWait: ... else: ...
\* (the count that the verbose run prints here is not kept in stdout, which
\* holds the records printed)
WInWaiting ==
    /\ wpc = "inWaiting"
    /\ inBufferByte' = InWaiting(rxbuf)
    /\ wpc' = IF BufferGate(inBufferByte', bytesWait) = "wait"
              THEN "gatewait" ELSE "readbuf"
    /\ UNCHANGED << offVars, cfgVars, readbufVars, outVars, histVars, portVars,
                    cpc, stop, rxbuf, nsent, lastday, fault >>

\* the gate's wait consuming the flag: stop.wait(0.5), then stop.clear()
WGateWaitClears ==
    /\ wpc = "gatewait"
    /\ wpc' = "while"
    /\ inBufferByte' = 0
    /\ stop' = FALSE
    /\ UNCHANGED << offVars, cfgVars, readbufVars, outVars, histVars, portVars,
                    cpc, rxbuf, nsent, lastday, fault >>

\* stop.wait(0.5): returns when the flag is set or the half second is over
WGateWait ==
    /\ wpc = "gatewait"
    /\ wpc' = "while"
    /\ inBufferByte' = 0
    /\ UNCHANGED << offVars, cfgVars, readbufVars, outVars, histVars, portVars,
                    cpc, stop, rxbuf, nsent, lastday, fault >>

\* stop.wait(period-2.5): returns when the flag is set or the time is over
WSleep ==
    /\ wpc = "sleep"
    /\ wpc' = "flushInput"
    /\ UNCHANGED << offVars, cfgVars, readbufVars, outVars, histVars, portVars,
                    cpc, stop, rxbuf, nsent, lastday, inBufferByte, fault >>

\* the flush going back into the loop body, past the loop's test of the flag
WFlushInputNoTest ==
    /\ wpc = "flushInput"
    /\ rxbuf' = << >>
    /\ wpc' = "inWaiting"
    /\ UNCHANGED << offVars, cfgVars, readbufVars, outVars, histVars, portVars,
                    cpc, stop, nsent, lastday, inBufferByte, fault >>

\* hs.flushInput(), the last statement of the else branch
WFlushInput ==
    /\ wpc = "flushInput"
    /\ rxbuf' = << >>
    /\ wpc' = "while"
    /\ UNCHANGED << offVars, cfgVars, readbufVars, outVars, histVars, portVars,
                    cpc, stop, nsent, lastday, inBufferByte, fault >>

----------------------------------------------------------------------------
(* readbuf: one drain cycle, called by portthread.                         *)

\* Today = date.today(); if (Today-lastday).days > 0: lastday = Today; txt = []
\* lastday is readbuf's parameter: the rebinding is local to this call
RToday ==
    /\ wpc = "readbuf"
    /\ \E d \in dates :
          /\ Today' = d
          /\ lastdayL' = Rollover(d, lastday)
          /\ rolledFrom' = IF d > lastday /\ lastday > rolledFrom
                           THEN lastday ELSE rolledFrom
    /\ txt' = << >>
    /\ i' = 0
    /\ raw' = << >>
    /\ wpc' = "readline"
    /\ inBufferByte' = 0
    /\ UNCHANGED << offVars, cfgVars, outVars, portVars, cpc, stop, rxbuf,
                    nsent, lastday, fault >>

\* readbuf returns, or an exception unwinds it: its locals are gone
ReadbufReturns ==
    /\ Today' = 0 /\ lastdayL' = 0 /\ txt' = << >> /\ i' = 0

\* what hs.readline() returns: the next line of the buffer, or nothing when the
\* one-second timeout passes with the buffer empty
ReadlineOf(buf) == IF buf = << >> THEN << >> ELSE Head(buf)

\* the list txt when the validator's answer is ignored: txt.append(line)
RetainAll(t, line) == Append(t, line)

\* the list txt after `if chksum_nmea(line): txt.append(line)`
Retain(t, line) == IF chksum_nmea(line) THEN Append(t, line) ELSE t

\* one pass of `for i in range(nline)`:
\*   line = hs.readline().decode('utf-8'); if chksum_nmea(line): txt.append(line)
\* an undecodable line raises UnicodeDecodeError, which nothing catches
RReadline ==
    /\ wpc = "readline"
    /\ LET line == ReadlineOf(rxbuf)
       IN  /\ rxbuf' = IF rxbuf = << >> THEN << >> ELSE Tail(rxbuf)
           /\ raw' = Append(raw, line)
           /\ IF Decodable(line)
              THEN /\ txt' = Retain(txt, line)
                   /\ i' = i + 1
                   /\ wpc' = IF i + 1 = nline THEN "write" ELSE "readline"
                   /\ UNCHANGED << fault, Today, lastdayL >>
              ELSE /\ fault' = "UnicodeDecodeError"
                   /\ wpc' = "crashed"
                   /\ ReadbufReturns
    /\ UNCHANGED << offVars, cfgVars, outVars, portVars, cpc, stop, nsent,
                    lastday, inBufferByte, rolledFrom >>

\* the printing with `if logfn is None` in place of the if/elif chain: a
\* verbose run without a stem prints the record twice
PrintedTwice(out, cgrp) ==
    LET once == IF verbose THEN Append(out, cgrp) ELSE out
    IN  IF logfn = "None" THEN Append(once, cgrp) ELSE once

\* what the cycle prints: cgrp when verbose, or when there is no log file
Printed(out, cgrp) ==
    IF verbose \/ logfn = "None" THEN Append(out, cgrp) ELSE out

\* the text of the lines of a cycle that pass validation, in read order
RECURSIVE ValidText(_)
ValidText(lines) ==
    IF lines = << >> THEN << >>
    ELSE (IF chksum_nmea(Head(lines)) THEN Head(lines) ELSE << >>)
             \o ValidText(Tail(lines))

\* cgrp=''.join(txt); if verbose: print(cgrp)
\* if logfn is not None: with open('{stem}-{lastday}{ext}',"a") as fid: fid.write(cgrp)
\* elif not verbose: print(cgrp)
RWrite ==
    /\ wpc = "write"
    /\ LET cgrp == Join(txt)
       IN  /\ stdout' = Printed(stdout, cgrp)
           /\ files' = IF logfn = "None" THEN files
                       ELSE [files EXCEPT ![lastdayL] = AppendFile(@, cgrp)]
    /\ expected' = IF logfn = "None" THEN expected
                   ELSE [expected EXCEPT ![lastdayL] =
                            (IF @ = NoFile THEN << >> ELSE @) \o ValidText(raw)]
    /\ wpc' = "sleep"
    /\ ReadbufReturns
    /\ UNCHANGED << offVars, cfgVars, histVars, portVars, cpc, stop, rxbuf,
                    nsent, lastday, inBufferByte, fault >>

\* the write fault swallowed, as under `try: ... except OSError: pass`: the
\* record is lost and the cycle goes on to its sleep
RWriteFaultSwallowed ==
    /\ wpc = "write"
    /\ logfn # "None"
    /\ stdout' = IF verbose THEN Append(stdout, Join(txt)) ELSE stdout
    /\ fault' = "OSError"
    /\ wpc' = "sleep"
    /\ ReadbufReturns
    /\ UNCHANGED << offVars, cfgVars, histVars, portVars, cpc, stop, rxbuf,
                    nsent, lastday, inBufferByte, files, expected >>

\* open(logfn,"a"), or fid.write(cgrp) at the close of the with block, raises
\* OSError (no permission, disk full) before any byte lands: nothing catches
\* it, the worker thread ends with the traceback
RWriteFault ==
    /\ wpc = "write"
    /\ logfn # "None"
    /\ stdout' = IF verbose THEN Append(stdout, Join(txt)) ELSE stdout
    /\ fault' = "OSError"
    /\ wpc' = "crashed"
    /\ ReadbufReturns
    /\ UNCHANGED << offVars, cfgVars, histVars, portVars, cpc, stop, rxbuf,
                    nsent, lastday, inBufferByte, files, expected >>

----------------------------------------------------------------------------
(* The environment: the receiver. The wall clock is read by date.today()   *)
(* and is not otherwise part of the state: between two readings it may    *)
(* have advanced, or have been set back, to any date.                      *)

\* the receiver emits one more line into the open port's receive buffer
Receive ==
    /\ hsOpen /\ ProcessAlive
    /\ nsent < MaxRx
    /\ \E line \in wire : rxbuf' = Append(rxbuf, line)
    /\ nsent' = nsent + 1
    /\ UNCHANGED << offVars, cfgVars, readbufVars, outVars, histVars, portVars,
                    cpc, wpc, stop, lastday, inBufferByte, fault >>

----------------------------------------------------------------------------
(* The specification of the logger.                                        *)

\* the state when nmeapoll is called, under the arguments and environment given
InitWith(stems, verboses, lines, days) ==
    /\ sentence = << >> /\ result = "none"
    /\ cpc = "serial" /\ wpc = "idle"
    /\ stop = FALSE /\ hsOpen = FALSE /\ nclose = 0
    /\ rxbuf = << >> /\ nsent = 0
    /\ lastday = 0
    /\ logfn \in stems
    /\ verbose \in verboses
    /\ wire = lines
    /\ dates = days
    /\ inBufferByte = 0 /\ Today = 0 /\ lastdayL = 0
    /\ txt = << >> /\ i = 0 /\ raw = << >>
    /\ files = [d \in Days |-> IF d = 0 THEN OldLog ELSE NoFile]
    /\ files0 = files
    /\ expected = files
    /\ fault = "none"
    /\ stdout = << >>
    /\ rolledFrom = -1
    /\ ScpiIdle

\* every combination of the -l and -v arguments, any line on the wire, any date
Init == InitWith({"None", "stem"}, BOOLEAN, RxLines, Days)

Control ==
    \/ COpen \/ CFlushInput \/ CFlushOutput \/ CLastday \/ CStart \/ CSignal
    \/ CHeartbeat \/ signal_handler \/ DefaultSigint

Worker ==
    \/ WWhile \/ WInWaiting \/ WGateWait \/ WSleep \/ WFlushInput
    \/ RToday \/ RReadline \/ RWrite \/ RWriteFault

Environment == Receive

Next == Control \/ Worker \/ Environment

Spec == Init /\ [][Next]_vars

\* The logger under fair scheduling, for what the worker eventually does. The
\* scheduler runs the worker thread whenever it can take a step: every wait
\* of portthread has a timeout and hs.readline() has timeout=1. Nothing is
\* assumed of the control thread nor of the receiver. The run is not
\* verbose, the receiver emits valid, corrupt and undecodable lines and the
\* clock stays on day 0: the worker's control flow depends on nothing else.
InitFair == InitWith({"None", "stem"}, {FALSE}, {LineA, LineBad, LineRaw}, {0})

SpecFair == InitFair /\ [][Next]_vars /\ WF_vars(Worker)

----------------------------------------------------------------------------
(* SCPIlogger.py: nmeapoll, the synchronous query/response logger. One     *)
(* thread; each query is written to the port and its reply read back       *)
(* before the next one is written.                                         *)

\* iterations of `while True` in one run
MaxIter == 2

\* the queries of one iteration, in the order of the source
Queries ==
    << "GPS:JAM?", "GPS:SAT:VIS:COUN?", "GPS:SAT:TRA:COUN?", "PTIME:TINT?",
       "SYNC:HOLD:DUR?" >>

\* datetime.utcnow().isoformat(timespec="seconds"): a text without newline
Now == << "T" >>

\* the value the device answers the k-th query with
Value(k) == << "1", "2", "3", "4", "5" >>[k]

\* S.readlines()[1].decode("utf-8"): the second line the device sent (the
\* first is the echo of the query), with its line terminator when the
\* device sent one: readlines() keeps the terminators and nothing strips them
ReplyLine(k, term) ==
    IF term THEN << Value(k), "CR", "LF" >> ELSE << Value(k) >>

\* " ".join(fields)
RECURSIVE JoinSp(_)
JoinSp(fields) ==
    IF fields = << >> THEN << >>
    ELSE IF Len(fields) = 1 THEN Head(fields)
    ELSE Head(fields) \o << " " >> \o JoinSp(Tail(fields))

\* cln = " ".join(cln) + "\n"
ClnText(fields) == JoinSp(fields) \o << "LF" >>

\* the program has ended with an exception
ScpiCrash(f) ==
    /\ faultScpi' = f
    /\ spc' = "crashed"

\* if S.isOpen(): S.close(); S.open(); S.flushInput(); S.flushOutput()
\* S.write("*IDN?\r\n"); txt = S.readlines()[1].decode("utf-8"); print(txt)
SSetup ==
    /\ spc = "setup"
    /\ spc' = "lastday"
    /\ UNCHANGED << chkVars, sysVars, logstem, verboseScpi, terminated, clock,
                    LastDay, TodayScpi, niter, q, ops, cln, filesScpi,
                    stdoutScpi, faultScpi >>

\* the set-up failing: the port cannot be opened or written to
\* (SerialException; pyserial's write() raises TypeError when handed a str),
\* or the device sent fewer than two lines (IndexError)
SSetupFault ==
    /\ spc = "setup"
    /\ \E f \in {"SerialException", "TypeError", "IndexError"} : ScpiCrash(f)
    /\ UNCHANGED << chkVars, sysVars, logstem, verboseScpi, terminated, clock,
                    LastDay, TodayScpi, niter, q, ops, cln, filesScpi,
                    stdoutScpi >>

\* LastDay = date.today()
SLastDay ==
    /\ spc = "lastday"
    /\ \E d \in clock : LastDay' = d
    /\ spc' = "today"
    /\ UNCHANGED << chkVars, sysVars, logstem, verboseScpi, terminated, clock,
                    TodayScpi, niter, q, ops, cln, filesScpi, stdoutScpi,
                    faultScpi >>

\* while True: Today = date.today()
\*             if (Today - LastDay).days > 0: LastDay = Today
\*             now = datetime.utcnow().isoformat(timespec="seconds")
SToday ==
    /\ spc = "today"
    /\ niter < MaxIter
    /\ \E d \in clock :
          /\ TodayScpi' = d
          /\ LastDay' = Rollover(d, LastDay)
    /\ niter' = niter + 1
    /\ q' = 0
    /\ ops' = << >>
    /\ cln' = << Now >>
    /\ spc' = "write"
    /\ UNCHANGED << chkVars, sysVars, logstem, verboseScpi, terminated, clock,
                    filesScpi, stdoutScpi, faultScpi >>

\* S.write(query): the next query of the iteration goes out
SWrite ==
    /\ spc = "write"
    /\ ops' = Append(ops, << "write", Queries[q + 1] >>)
    /\ spc' = "readlines"
    /\ UNCHANGED << chkVars, sysVars, logstem, verboseScpi, terminated, clock,
                    LastDay, TodayScpi, niter, q, cln, filesScpi, stdoutScpi,
                    faultScpi >>

\* S.write(query) raising: nothing catches it
SWriteFault ==
    /\ spc = "write"
    /\ \E f \in {"SerialException", "TypeError"} : ScpiCrash(f)
    /\ UNCHANGED << chkVars, sysVars, logstem, verboseScpi, terminated, clock,
                    LastDay, TodayScpi, niter, q, ops, cln, filesScpi,
                    stdoutScpi >>

\* jam = S.readlines()[1].decode("utf-8"), and likewise nVis, nTrk, tint,
\* hdur: everything the device sent is read and its second line is the reply
SReadlines ==
    /\ spc = "readlines"
    /\ ops' = Append(ops, << "readlines", Queries[q + 1] >>)
    /\ cln' = Append(cln, ReplyLine(q + 1, terminated))
    /\ q' = q + 1
    /\ spc' = IF q + 1 = Len(Queries) THEN "log" ELSE "write"
    /\ UNCHANGED << chkVars, sysVars, logstem, verboseScpi, terminated, clock,
                    LastDay, TodayScpi, niter, filesScpi, stdoutScpi,
                    faultScpi >>

\* the device sent fewer than two lines before the timeout (IndexError), or
\* a reply that is not valid UTF-8 (UnicodeDecodeError): nothing catches it
SReadFault ==
    /\ spc = "readlines"
    /\ ops' = Append(ops, << "readlines", Queries[q + 1] >>)
    /\ \E f \in {"IndexError", "UnicodeDecodeError"} : ScpiCrash(f)
    /\ UNCHANGED << chkVars, sysVars, logstem, verboseScpi, terminated, clock,
                    LastDay, TodayScpi, niter, q, cln, filesScpi, stdoutScpi >>

\* cln = " ".join(cln) + "\n"; if verbose: print(cln)
\* if logstem is not None: with logfn.open("a") as f: f.write(cln)
SLog ==
    /\ spc = "log"
    /\ LET text == ClnText(cln)
       IN  /\ stdoutScpi' = IF verboseScpi THEN Append(stdoutScpi, text)
                             ELSE stdoutScpi
           /\ filesScpi' = IF logstem = "None" THEN filesScpi
                           ELSE [filesScpi EXCEPT ![LastDay] = AppendFile(@, text)]
    /\ spc' = "sleep"
    /\ UNCHANGED << chkVars, sysVars, logstem, verboseScpi, terminated, clock,
                    LastDay, TodayScpi, niter, q, ops, cln, faultScpi >>

\* logfn.open("a") raising OSError: nothing catches it
SLogFault ==
    /\ spc = "log"
    /\ logstem # "None"
    /\ stdoutScpi' = IF verboseScpi THEN Append(stdoutScpi, ClnText(cln))
                      ELSE stdoutScpi
    /\ ScpiCrash("OSError")
    /\ UNCHANGED << chkVars, sysVars, logstem, verboseScpi, terminated, clock,
                    LastDay, TodayScpi, niter, q, ops, cln, filesScpi >>

\* sleep(period)
SSleep ==
    /\ spc = "sleep"
    /\ spc' = "today"
    /\ UNCHANGED << chkVars, sysVars, logstem, verboseScpi, terminated, clock,
                    LastDay, TodayScpi, niter, q, ops, cln, filesScpi,
                    stdoutScpi, faultScpi >>

\* the state when SCPIlogger's nmeapoll is called: either argument, a device
\* that terminates its reply lines or does not, no log file yet
InitScpi ==
    /\ sentence = << >> /\ result = "none"
    /\ SysIdle
    /\ spc = "setup"
    /\ logstem \in {"None", "stem"}
    /\ verboseScpi \in BOOLEAN
    /\ terminated \in BOOLEAN
    /\ clock = Days
    /\ LastDay = 0 /\ TodayScpi = 0
    /\ niter = 0 /\ q = 0 /\ ops = << >> /\ cln = << >>
    /\ filesScpi = [d \in Days |-> NoFile]
    /\ stdoutScpi = << >>
    /\ faultScpi = "none"

NextScpi ==
    \/ SSetup \/ SSetupFault \/ SLastDay \/ SToday
    \/ SWrite \/ SWriteFault \/ SReadlines \/ SReadFault
    \/ SLog \/ SLogFault \/ SSleep

SpecScpi == InitScpi /\ [][NextScpi]_vars

----------------------------------------------------------------------------
(* The frame grammar `prefix $ payload * checksum suffix`, as the          *)
(* specification words it, for the statements about chksum_nmea.           *)

\* 1-based places of the first "$" and the first "*" (0 when absent)
Dollar(s) == PyFind(s, "$") + 1
Star(s) == PyFind(s, "*") + 1

\* s is prefix $ payload * h h suffix: the start marker, then the end marker,
\* then two hexadecimal digits; prefix and suffix are arbitrary
IsFrame(s) ==
    /\ Dollar(s) > 0
    /\ Star(s) > Dollar(s)
    /\ Len(s) >= Star(s) + 2
    /\ IsHexDigit(s[Star(s) + 1])
    /\ IsHexDigit(s[Star(s) + 2])

\* the two digits after the end marker, read as an unsigned integer
FrameChecksum(s) == 16 * DigitVal(s[Star(s) + 1]) + DigitVal(s[Star(s) + 2])

\* the fold of the payload between the markers, line terminators stripped
FrameFold(s) == XorFold(StripNewlines(SubSeq(s, Dollar(s) + 1, Star(s) - 1)))

\* the malformed inputs: no marker at all, or the field after the end marker
\* is not two hexadecimal digits, or fewer than the 4 characters of the
\* smallest frame, $*hh
Malformed(s) ==
    \/ Dollar(s) = 0 /\ Star(s) = 0
    \/ Star(s) > 0 /\ ~(/\ Len(s) >= Star(s) + 2
                        /\ IsHexDigit(s[Star(s) + 1])
                        /\ IsHexDigit(s[Star(s) + 2]))
    \/ Len(s) < 4

\* C1: for every line prefix $ payload * checksum suffix, chksum_nmea
\* returns true exactly when the two hexadecimal digits after the "*" equal
\* the exclusive-or fold of the payload.
C1_FrameIff ==
    (result # "none" /\ IsFrame(sentence))
        => (result = "True" <=> FrameChecksum(sentence) = FrameFold(sentence))

\* C2: for every malformed line (no markers, a checksum field that is not
\* two hexadecimal digits, or shorter than the smallest frame) chksum_nmea
\* returns false.
C2_MalformedFalse ==
    (result # "none" /\ Malformed(sentence)) => result = "False"

----------------------------------------------------------------------------
(* Statements about the logger.                                            *)

\* t is s with something appended to it
IsPrefix(s, t) == Len(s) <= Len(t) /\ SubSeq(t, 1, Len(s)) = s

\* the days whose file a step changes
Touched == {d \in Days : files'[d] # files[d]}

WorkerStopped == wpc \in {"done", "crashed"}

\* C6: once the flag is set the worker eventually stops, whatever it was
\* doing and whether or not the receiver sends anything more.
C6_StopLeadsToStopped == stop ~> WorkerStopped

\* the flag was set and portthread has returned without the receiver ever
\* having sent a line
C6_Witness == stop /\ wpc = "done" /\ nsent = 0

\* C7: when the worker has stopped on the flag, the transport has been closed
\* exactly once.
C7_ClosedOnceOnStop == wpc = "done" => (nclose = 1 /\ ~hsOpen)

\* C8: the worker goes from the bytes-available query to a drain exactly when
\* the count is at least bytesWait and to the wait otherwise; a drain starts
\* nowhere else; and the waiting worker reads nothing and writes nothing, it
\* only returns to the loop's test.
C8_GateDecides ==
    /\ [](wpc = "gatewait" => inBufferByte < bytesWait)
    /\ [](wpc = "readbuf" => inBufferByte >= bytesWait)
    /\ [][/\ (wpc = "inWaiting" /\ wpc' # wpc) =>
                /\ wpc' = "readbuf" <=> InWaiting(rxbuf) >= bytesWait
                /\ wpc' = "gatewait" <=> InWaiting(rxbuf) < bytesWait
          /\ (wpc' = "readbuf" /\ wpc # "readbuf") => wpc = "inWaiting"
          /\ wpc = "gatewait" =>
                /\ wpc' \in {"gatewait", "while"}
                /\ files' = files /\ stdout' = stdout
                /\ IsPrefix(rxbuf, rxbuf')]_vars

\* the worker proceeds to a drain with exactly bytesWait bytes in the buffer
C8_Witness == wpc = "readbuf" /\ inBufferByte = bytesWait

\* C9: the flag is unset when the worker starts; it changes only by the
\* interrupt handler setting it, in a step in which the worker does not move;
\* once set it stays set.
C9_FlagSetOnlyByHandler ==
    /\ [](wpc = "idle" => ~stop)
    /\ [][/\ (wpc = "idle" /\ wpc' # "idle") => ~stop'
          /\ stop' # stop =>
                /\ ~stop /\ stop'
                /\ cpc = "heartbeat" /\ cpc' = "exited"
                /\ wpc' = wpc]_vars

\* the handler has set the flag while the worker is in the middle of a drain
C9_Witness == stop /\ cpc = "exited" /\ wpc = "readline" /\ i > 0

\* C10: a line that is not valid text is discarded like a checksum mismatch,
\* the rest of the cycle is read and written and the loop goes on: no
\* decoding error ever ends the worker.
C10_DecodeFaultDiscarded == fault # "UnicodeDecodeError"

\* C11: a fault in appending the record is not swallowed: it ends the worker
\* at the failed write, and from then on the worker takes no step, nothing is
\* read from the transport and nothing is written or printed.
C11_WriteFaultStopsLoop ==
    /\ [](fault = "OSError" => wpc = "crashed")
    /\ [][fault = "OSError" =>
             /\ wpc' = wpc /\ fault' = fault
             /\ IsPrefix(rxbuf, rxbuf')
             /\ files' = files /\ stdout' = stdout]_vars

\* the write has failed with lines waiting in the receive buffer and the
\* control thread still in its heartbeat loop: the lines stay unread
C11_Witness ==
    /\ fault = "OSError" /\ wpc = "crashed"
    /\ cpc = "heartbeat" /\ rxbuf # << >>

Suspended == {"gatewait", "readline", "sleep"}

\* C13: with the flag set, a worker suspended at the gate's wait, at a read of
\* the drain cycle or at the end-of-cycle sleep leaves it without reading:
\* none of the cycle's remaining reads is made.
C13_SuspensionsCutShort ==
    [][(stop /\ wpc \in Suspended) => raw' = raw]_vars

\* what a read, and nothing else, does to the receive buffer: lines may
\* arrive at its end and at most the first line leaves it
ReadOnly(buf, buf2) ==
    \/ IsPrefix(buf, buf2)
    \/ buf # << >> /\ IsPrefix(Tail(buf), buf2)

\* C14: in a cycle that drains, the write is followed by the flush of the
\* input buffer and the flush by the end-of-cycle sleep; readbuf takes lines
\* from the buffer only by reading them.
C14_WriteFlushSleep ==
    [][/\ (wpc = "write" /\ wpc' \notin {"write", "crashed"}) =>
             wpc' = "flushInput"
       /\ (wpc' = "sleep" /\ wpc # "sleep") => wpc = "flushInput"
       /\ wpc \in {"readbuf", "readline", "write"} => ReadOnly(rxbuf, rxbuf')
      ]_vars

\* C15: when readbuf returns from a cycle whose rollover check read a date
\* later than the loop's LogDay, the loop's LogDay is that date; so at the
\* start of a cycle the loop's LogDay is later than any day a rollover has
\* left behind.
C15_LogDayPersists ==
    /\ [][(wpc = "write" /\ wpc' = "sleep" /\ Today > lastday) =>
             lastday' = Today]_vars
    /\ []((wpc = "readbuf" /\ rolledFrom # -1) => lastday > rolledFrom)

\* the positions of nmeapoll before the worker thread is started
Setup == {"serial", "flushInput", "flushOutput", "lastday", "start"}

\* the order of nmeapoll's statements
ControlOrder ==
    { << "serial", "flushInput" >>, << "flushInput", "flushOutput" >>,
      << "flushOutput", "lastday" >>, << "lastday", "start" >>,
      << "start", "signal" >>, << "signal", "heartbeat" >>,
      << "heartbeat", "exited" >> }

\* C16: the worker is started by nmeapoll after it has opened the port,
\* flushed its input and output and captured lastday, in that order; once the
\* worker is started a step of the control thread leaves the port, the
\* buffer, the files and the worker's state alone (of the state the worker
\* uses it changes the flag only), and a step of the worker leaves the
\* control thread alone.
C16_WorkerOwnsTransport ==
    /\ [](wpc # "idle" => (hsOpen /\ cpc \notin Setup /\ lastday \in dates))
    /\ [][/\ (cpc' # cpc /\ cpc' # "killed") => << cpc, cpc' >> \in ControlOrder
          /\ (cpc = "serial" /\ cpc' = "flushInput") => hsOpen'
          /\ (cpc = "flushInput" /\ cpc' = "flushOutput") =>
                (hsOpen /\ rxbuf' = << >>)
          /\ (wpc = "idle" /\ wpc' # "idle") => cpc = "start"
          /\ (wpc # "idle" /\ cpc' # cpc) =>
                UNCHANGED << portVars, rxbuf, lastday, readbufVars, outVars,
                             inBufferByte, wpc, fault >>
          /\ (wpc # "idle" /\ wpc' # wpc) => cpc' = cpc]_vars

\* the handler has run and the control thread is gone while the worker, in
\* the middle of a cycle, has lines waiting in the buffer
C16_Witness ==
    /\ cpc = "exited" /\ stop
    /\ wpc = "flushInput" /\ rxbuf # << >>

\* C17: when an interrupt has ended the control thread after the worker was
\* started, the flag is set.
C17_InterruptSetsFlag ==
    (wpc # "idle" /\ cpc \in {"exited", "killed"}) => stop

\* where the worker is past the point of starting a drain cycle or writing
PastDrain == {"gatewait", "sleep", "flushInput", "while", "done", "crashed"}

\* C18: with the flag set, a file changes only by the write of the cycle in
\* flight, which appends the whole record to one file; after that write, and
\* from the loop's test or the gate's wait, the worker starts no drain cycle
\* and writes nothing more.
C18_AtMostOneMoreRecord ==
    [][stop =>
         /\ wpc \in PastDrain => (wpc' \in PastDrain /\ files' = files)
         /\ files' # files =>
               /\ wpc = "write" /\ wpc' = "sleep"
               /\ files' = [files EXCEPT ![lastdayL] = AppendFile(@, Join(txt))]
      ]_vars

\* the flag was set during a cycle that read LineA and LineB; the cycle has
\* written both lines to the log of day 1 and the worker has stopped
C18_Witness ==
    /\ stop /\ wpc = "done"
    /\ raw = << LineA, LineB, << >>, << >> >>
    /\ files[1] = LineA \o LineB

----------------------------------------------------------------------------
(* Statements about SCPIlogger.                                            *)

\* the port operations of a whole iteration: each of the five queries
\* written and then its reply read, in the order of Queries
FullOps ==
    [k \in 1..(2 * Len(Queries)) |->
        IF k % 2 = 1 THEN << "write", Queries[(k + 1) \div 2] >>
        ELSE << "readlines", Queries[k \div 2] >>]

\* the number of line feeds in a text
NumLF(text) == Cardinality({k \in 1..Len(text) : text[k] = "LF"})

\* new is old (possibly absent) with exactly one line added at its end
OneLineAppended(old, new) ==
    LET base  == IF old = NoFile THEN << >> ELSE old
        added == SubSeq(new, Len(base) + 1, Len(new))
    IN  /\ new # NoFile
        /\ IsPrefix(base, new)
        /\ added # << >>
        /\ added[Len(added)] = "LF"
        /\ NumLF(added) = 1

\* the later of two dates
LaterOf(a, b) == IF a > b THEN a ELSE b

\* C19: in every iteration of SCPIlogger's loop the five queries go out in
\* the order of the source, each followed by the read of its reply before
\* the next is written; the iteration's write adds exactly one line to the
\* file of LastDay when a stem is configured and changes no file otherwise;
\* LastDay never decreases and after the check at the iteration's start is
\* the latest date read so far.
C19_ScpiIteration ==
    /\ [](IsPrefix(ops, FullOps))
    /\ [](spc = "log" => ops = FullOps)
    /\ [][/\ (spc = "log" /\ spc' = "sleep") =>
                IF logstem = "None" THEN filesScpi' = filesScpi
                ELSE /\ \A d \in Days \ {LastDay} :
                           filesScpi'[d] = filesScpi[d]
                     /\ OneLineAppended(filesScpi[LastDay], filesScpi'[LastDay])
          /\ filesScpi' # filesScpi => spc = "log"
          /\ spc # "lastday" => LastDay' >= LastDay
          /\ (spc = "today" /\ spc' = "write") =>
                LastDay' = LaterOf(LastDay, TodayScpi')]_vars

====
